---------------------------- MODULE Spec2Model ----------------------------
(***************************************************************************)
(* ai-facemaker browser demo (credentials based app): connection handling, *)
(* prompt composition, per-model request encoding, model invocation and    *)
(* response decoding.                                                      *)
(*                                                                         *)
(* Text is modelled as a sequence of one-character strings, so that        *)
(* startsWith, substring, split and join are computed as JavaScript        *)
(* computes them.                                                          *)
(***************************************************************************)
EXTENDS Integers, Sequences, FiniteSets, Bags, TLC

VARIABLES
    awsCredentials,     \* let awsCredentials: Null or [accessKeyId, secretAccessKey]
    awsRegion,          \* let awsRegion: Null or a region name
    awsConfig,          \* AWS.config of the SDK: [region, credentials]
    display,            \* style.display of the sections and views
    generateBtnDisabled,\* generateBtn.disabled
    errorText,          \* errorDiv.textContent
    credentialsStatus,  \* credentialsStatus: [text, type]
    connectedRegion,    \* connectedRegion.textContent
    resultImage,        \* resultImage.src / dataset.blob: the bytes shown
    probes,             \* bag of the listFoundationModels calls awaiting their answer
    invokes,            \* handleGenerate activations awaiting invokeModel
    clients,            \* number of AWS.BedrockRuntime clients constructed
    accepted,           \* number of handleGenerate activations that passed its checks
    calls,              \* bag of the invokeModel calls the backend received
    input,              \* arguments of the pure function under study
    output              \* its result

appVars == <<awsCredentials, awsRegion, awsConfig, display,
             generateBtnDisabled, errorText, credentialsStatus,
             connectedRegion, resultImage, probes, invokes, clients,
             accepted, calls>>

fnVars == <<input, output>>

vars == <<appVars, fnVars>>

\* Nullable references: Null, or Some(v) holding the value v.
Null == <<>>

Some(v) == <<v>>

Val(ref) == ref[1]

---------------------------------------------------------------------------
(* JavaScript string primitives on character sequences.                    *)

Min(a, b) == IF a <= b THEN a ELSE b

\* String.prototype.startsWith(prefix)
StartsWithOffByOne(s, prefix) ==
    /\ Len(s) >= Len(prefix) - 1
    /\ SubSeq(s, 1, Len(prefix) - 1) = SubSeq(prefix, 1, Len(prefix) - 1)

StartsWith(s, prefix) ==
    /\ Len(s) >= Len(prefix)
    /\ SubSeq(s, 1, Len(prefix)) = prefix

\* String.prototype.substring(0, n)
SubstringShort(s, n) == SubSeq(s, 1, Min(n - 1, Len(s)))

Substring(s, n) == SubSeq(s, 1, Min(n, Len(s)))

\* Index of the first "." of s, or 0 when s holds none.
FirstDot(s) ==
    IF \E i \in 1..Len(s) : s[i] = "."
    THEN CHOOSE i \in 1..Len(s) : s[i] = "." /\ \A j \in 1..(i - 1) : s[j] # "."
    ELSE 0

\* String.prototype.split('.'): the list of period-delimited segments.
RECURSIVE Split(_)
Split(s) ==
    IF FirstDot(s) = 0
    THEN <<s>>
    ELSE <<SubSeq(s, 1, FirstDot(s) - 1)>> \o Split(SubSeq(s, FirstDot(s) + 1, Len(s)))

\* Array.prototype.slice(0, n)
Slice(list, n) == SubSeq(list, 1, Min(n, Len(list)))

\* Array.prototype.join('.')
RECURSIVE Join(_)
Join(list) ==
    IF Len(list) = 0 THEN <<>>
    ELSE IF Len(list) = 1 THEN list[1]
    ELSE list[1] \o <<".">> \o Join(Tail(list))

\* A JavaScript string is falsy exactly when it is empty.
TruthyAlways(s) == TRUE

Truthy(s) == s # <<>>

---------------------------------------------------------------------------
(* buildPrompt                                                             *)

NL == <<"\n">>

CharacterLabel == <<"C", "h", "a", "r", "a", "c", "t", "e", "r", ":", " ">>

SettingLabel == <<"S", "e", "t", "t", "i", "n", "g", ":", " ">>

StyleLabel == <<"S", "t", "y", "l", "e", ":", " ">>

\* `Setting: ${context.split('.').slice(0, 2).join('.')}.`
SettingLine(context) == SettingLabel \o Join(Slice(Split(context), 2)) \o <<".">>

\* `Character: ${name}, ${role}.`
CharacterLine(name, role) == CharacterLabel \o name \o <<",", " ">> \o role \o <<".">>

StyleLine(style) == StyleLabel \o style

BuildPrompt(context, style, name, role, description, frame) ==
    frame \o NL \o NL
        \o CharacterLine(name, role) \o NL
        \o description \o NL \o NL
        \o SettingLine(context) \o NL \o NL
        \o StyleLine(style)

---------------------------------------------------------------------------
(* Math.floor(Math.random() * n)                                           *)
(*                                                                         *)
(* The seed multipliers exceed 2^31, so naturals are kept as little-endian *)
(* sequences of 13-bit limbs: three limbs for a multiplier or a seed, four *)
(* limbs for the numerator j of a Math.random() result j / 2^52 (the       *)
(* resolution of a double in [0, 1)).  For the numerators drawn below the  *)
(* exact floor(j * n / 2^52) equals the floor of the rounded double        *)
(* product.                                                                *)

LimbBase == 2 ^ 13

BigZero == <<0, 0, 0>>

\* x * m + a on three limbs (m and a small).
BigMulSmallAdd(x, m, a) ==
    LET t1 == x[1] * m + a
        t2 == x[2] * m + (t1 \div LimbBase)
        t3 == x[3] * m + (t2 \div LimbBase)
    IN  <<t1 % LimbBase, t2 % LimbBase, t3 % LimbBase>>

\* The natural written in decimal by the digit sequence d.
RECURSIVE Dec(_)
Dec(d) ==
    IF d = <<>> THEN BigZero
    ELSE BigMulSmallAdd(Dec(SubSeq(d, 1, Len(d) - 1)), 10, d[Len(d)])

\* Comparison of two three-limb naturals.
BigLess(a, b) ==
    \/ a[3] < b[3]
    \/ a[3] = b[3] /\ a[2] < b[2]
    \/ a[3] = b[3] /\ a[2] = b[2] /\ a[1] < b[1]

BigLeq(a, b) == a = b \/ BigLess(a, b)

\* Column k of the schoolbook product of r (4 limbs) and n (3 limbs).
Term(r, n, i, k) == IF (k + 1 - i) \in 1..3 THEN r[i] * n[k + 1 - i] ELSE 0

Col(r, n, k) == Term(r, n, 1, k) + Term(r, n, 2, k) + Term(r, n, 3, k) + Term(r, n, 4, k)

RECURSIVE CarryInto(_, _, _)
CarryInto(r, n, k) ==
    IF k = 1 THEN 0
    ELSE (Col(r, n, k - 1) + CarryInto(r, n, k - 1)) \div LimbBase

ProductLimb(r, n, k) == (Col(r, n, k) + CarryInto(r, n, k)) % LimbBase

\* Math.floor(Math.random() * n) with Math.random() = r / 2^52: the product
\* without its four low limbs.
RandomInt(r, n) ==
    <<ProductLimb(r, n, 5), ProductLimb(r, n, 6), ProductLimb(r, n, 7)>>

\* Numerators of the Math.random() results drawn: 0, 2^-52, 1/2, and the
\* largest double below 1.
RandomMin == <<0, 0, 0, 0>>

RandomMax == <<LimbBase - 1, LimbBase - 1, LimbBase - 1, LimbBase - 1>>

RandomValues == {RandomMin, <<1, 0, 0, 0>>, <<0, 0, 0, LimbBase \div 2>>, RandomMax}

---------------------------------------------------------------------------
(* generateImage: the request body                                         *)

TitanPrefix == <<"a", "m", "a", "z", "o", "n", ".", "t", "i", "t", "a", "n">>

Sd3Prefix == <<"s", "t", "a", "b", "i", "l", "i", "t", "y", ".", "s", "d", "3">>

TitanPromptLimit == 512

TitanNegativeLimit == 512

Sd3PromptLimit == 10000

SdxlPromptLimit == 2000

\* 2147483646 and 4294967294
TitanSeedFactor == Dec(<<2, 1, 4, 7, 4, 8, 3, 6, 4, 6>>)

Sd3SeedFactor == Dec(<<4, 2, 9, 4, 9, 6, 7, 2, 9, 4>>)

SdxlSeedFactor == Dec(<<4, 2, 9, 4, 9, 6, 7, 2, 9, 4>>)

TitanBody(prompt, negative, rnd) ==
    [taskType |-> "TEXT_IMAGE",
     textToImageParams |->
        IF Truthy(negative)
        THEN [text |-> Substring(prompt, TitanPromptLimit),
              negativeText |-> Substring(negative, TitanNegativeLimit)]
        ELSE [text |-> Substring(prompt, TitanPromptLimit)],
     imageGenerationConfig |->
        [numberOfImages |-> 1, quality |-> "premium", height |-> 1024,
         width |-> 1024, cfgScale |-> 8, seed |-> RandomInt(rnd, TitanSeedFactor)]]

\* Sd3Body with the negative prompt cut like Titan's.
Sd3BodyCuttingNegative(prompt, negative, rnd) ==
    IF Truthy(negative)
    THEN [prompt |-> Substring(prompt, Sd3PromptLimit), mode |-> "text-to-image",
          aspect_ratio |-> "1:1", output_format |-> "png",
          seed |-> RandomInt(rnd, Sd3SeedFactor),
          negative_prompt |-> Substring(negative, TitanNegativeLimit)]
    ELSE [prompt |-> Substring(prompt, Sd3PromptLimit), mode |-> "text-to-image",
          aspect_ratio |-> "1:1", output_format |-> "png",
          seed |-> RandomInt(rnd, Sd3SeedFactor)]

Sd3Body(prompt, negative, rnd) ==
    IF Truthy(negative)
    THEN [prompt |-> Substring(prompt, Sd3PromptLimit), mode |-> "text-to-image",
          aspect_ratio |-> "1:1", output_format |-> "png",
          seed |-> RandomInt(rnd, Sd3SeedFactor), negative_prompt |-> negative]
    ELSE [prompt |-> Substring(prompt, Sd3PromptLimit), mode |-> "text-to-image",
          aspect_ratio |-> "1:1", output_format |-> "png",
          seed |-> RandomInt(rnd, Sd3SeedFactor)]

SdxlBody(prompt, negative, rnd) ==
    [text_prompts |->
        IF Truthy(negative)
        THEN <<[text |-> Substring(prompt, SdxlPromptLimit), weight |-> 1],
               [text |-> negative, weight |-> -1]>>
        ELSE <<[text |-> Substring(prompt, SdxlPromptLimit), weight |-> 1]>>,
     cfg_scale |-> 7, seed |-> RandomInt(rnd, SdxlSeedFactor), steps |-> 50,
     width |-> 1024, height |-> 1024]

\* The if / else if / else chain on modelId.startsWith(...).
RequestBody(modelId, prompt, negative, rnd) ==
    IF StartsWith(modelId, TitanPrefix) THEN TitanBody(prompt, negative, rnd)
    ELSE IF StartsWith(modelId, Sd3Prefix) THEN Sd3Body(prompt, negative, rnd)
    ELSE SdxlBody(prompt, negative, rnd)

---------------------------------------------------------------------------
(* Inputs of the pure functions.                                           *)

Contexts ==
    {<<"A", "b">>,
     <<"A", "b", ".">>,
     <<"A", "b", ".", "C", "d">>,
     <<"A", "b", ".", " ", "C", "d", ".">>,
     <<"A", "b", ".", "C", "d", ".", "E", "f">>,
     <<"A", "b", ".", " ", "C", "d", ".", " ", "E", "f", ".", " ", "G", "h", ".">>,
     <<>>}

ModelIds ==
    {<<"a", "m", "a", "z", "o", "n", ".", "t", "i", "t", "a", "n", "-", "i", "m", "a", "g", "e", "-", "g", "e", "n", "e", "r", "a", "t", "o", "r", "-", "v", "1">>,
     <<"a", "m", "a", "z", "o", "n", ".", "t", "i", "t", "a", "n">>,
     <<"a", "m", "a", "z", "o", "n", ".", "t", "i", "t", "a">>,
     <<"A", "m", "a", "z", "o", "n", ".", "t", "i", "t", "a", "n", "-", "i", "m", "a", "g", "e">>,
     <<" ", "a", "m", "a", "z", "o", "n", ".", "t", "i", "t", "a", "n">>,
     <<"s", "t", "a", "b", "i", "l", "i", "t", "y", ".", "s", "d", "3", "-", "5", "-", "l", "a", "r", "g", "e", "-", "v", "1", ":", "0">>,
     <<"s", "t", "a", "b", "i", "l", "i", "t", "y", ".", "s", "d", "3">>,
     <<"s", "t", "a", "b", "i", "l", "i", "t", "y", ".", "s", "d">>,
     <<"s", "t", "a", "b", "i", "l", "i", "t", "y", ".", "s", "t", "a", "b", "l", "e", "-", "d", "i", "f", "f", "u", "s", "i", "o", "n", "-", "x", "l", "-", "v", "1">>,
     <<"a", "m", "a", "z", "o", "n", ".", "n", "o", "v", "a", "-", "c", "a", "n", "v", "a", "s", "-", "v", "1", ":", "0">>,
     <<>>}

\* A text of n characters whose i-th character depends on i.
Letters == <<"p", "q", "r", "s", "t", "u", "v">>

Text(n) == [i \in 1..n |-> Letters[(i % 7) + 1]]

Marks == <<"x", " ", "y", "z", "w">>

NegativeText(n) == [i \in 1..n |-> Marks[(i % 5) + 1]]

\* Lengths around every limit of generateImage.
Limits == {TitanPromptLimit, TitanNegativeLimit, Sd3PromptLimit, SdxlPromptLimit}

Lengths == {0, 1, 40} \cup UNION {{l - 1, l, l + 1} : l \in Limits}

PromptInputs ==
    [fn : {"buildPrompt"}, context : Contexts, style : {<<>>, <<"S", "t">>},
     name : {<<"N", "a">>}, role : {<<>>, <<"R", "o">>},
     description : {<<>>, <<"D", "e", ".">>}, frame : {<<>>, <<"F", "r">>}]

EncodeInputs ==
    [fn : {"generateImage"}, modelId : ModelIds, prompt : {Text(n) : n \in Lengths},
     negative : {NegativeText(n) : n \in {0, 1, 2} \cup {TitanNegativeLimit - 1,
                    TitanNegativeLimit, TitanNegativeLimit + 1, SdxlPromptLimit + 1}},
     rnd : RandomValues]

---------------------------------------------------------------------------
(* generateImage: decoding the response                                    *)

Base64Chars ==
    <<"A", "B", "C", "D", "E", "F", "G", "H", "I", "J", "K", "L", "M", "N", "O", "P",
      "Q", "R", "S", "T", "U", "V", "W", "X", "Y", "Z", "a", "b", "c", "d", "e", "f",
      "g", "h", "i", "j", "k", "l", "m", "n", "o", "p", "q", "r", "s", "t", "u", "v",
      "w", "x", "y", "z", "0", "1", "2", "3", "4", "5", "6", "7", "8", "9", "+", "/">>

Base64Index(c) == (CHOOSE i \in 1..64 : Base64Chars[i] = c) - 1

\* String(undefined), what atob makes of a missing argument.
UndefinedText == <<"u", "n", "d", "e", "f", "i", "n", "e", "d">>

\* The data of s without its padding (forgiving-base64: at most two "=" are
\* dropped, and only when the length is a multiple of 4).
Unpadded(s) ==
    IF Len(s) % 4 = 0 /\ Len(s) >= 2 /\ s[Len(s)] = "=" /\ s[Len(s) - 1] = "="
    THEN SubSeq(s, 1, Len(s) - 2)
    ELSE IF Len(s) % 4 = 0 /\ Len(s) >= 1 /\ s[Len(s)] = "="
    THEN SubSeq(s, 1, Len(s) - 1)
    ELSE s

\* Value of the i-th sextet of d, 0 past its end.
Sextet(d, i) == IF i <= Len(d) THEN Base64Index(d[i]) ELSE 0

\* Byte k (from 0) of the decoded data d.
DecodedByte(d, k) ==
    LET q == 4 * (k \div 3)
    IN  CASE k % 3 = 0 -> Sextet(d, q + 1) * 4 + (Sextet(d, q + 2) \div 16)
          [] k % 3 = 1 -> (Sextet(d, q + 2) % 16) * 16 + (Sextet(d, q + 3) \div 4)
          [] k % 3 = 2 -> (Sextet(d, q + 3) % 4) * 64 + Sextet(d, q + 4)

AtobMessage == "The string to be decoded is not correctly encoded."

\* Uint8Array.from(atob(s), c => c.charCodeAt(0)): the bytes, or the
\* InvalidCharacterError atob throws.
Atob(s) ==
    LET d == Unpadded(s)
    IN  IF Len(d) % 4 = 1 \/ \E i \in 1..Len(d) : \A j \in 1..64 : Base64Chars[j] # d[i]
        THEN [ok |-> FALSE, message |-> AtobMessage]
        ELSE [ok |-> TRUE,
              bytes |-> [k \in 1..((Len(d) * 6) \div 8) |-> DecodedByte(d, k - 1)]]

NoImageMessageLower == "no image in response"

NoImageMessage == "No image in response"

TypeErrorMessage == "Cannot read properties of undefined (reading 'base64')"

\* list[0] of a JavaScript array of texts: undefined when the list is empty.
First(list) == IF Len(list) = 0 THEN UndefinedText ELSE list[1]

\* Lines 253-268: the parsed response body is a record holding the fields
\* present in the JSON object; arrays are truthy, also when empty.
DecodeLowerCase(body) ==
    IF "images" \in DOMAIN body
    THEN Atob(First(body.images))
    ELSE IF "artifacts" \in DOMAIN body
    THEN IF Len(body.artifacts) = 0
         THEN [ok |-> FALSE, message |-> TypeErrorMessage]
         ELSE IF "base64" \in DOMAIN body.artifacts[1]
         THEN Atob(body.artifacts[1].base64)
         ELSE Atob(UndefinedText)
    ELSE [ok |-> FALSE, message |-> NoImageMessageLower]

Decode(body) ==
    IF "images" \in DOMAIN body
    THEN Atob(First(body.images))
    ELSE IF "artifacts" \in DOMAIN body
    THEN IF Len(body.artifacts) = 0
         THEN [ok |-> FALSE, message |-> TypeErrorMessage]
         ELSE IF "base64" \in DOMAIN body.artifacts[1]
         THEN Atob(body.artifacts[1].base64)
         ELSE Atob(UndefinedText)
    ELSE [ok |-> FALSE, message |-> NoImageMessage]

\* Two images as the backend encodes them: the first bytes of a PNG file
\* (its signature and the head of its IHDR chunk, which holds the width and
\* height asked for in the request body, 1024 by 1024) and of a JPEG file.
PngBase64 ==
    <<"i", "V", "B", "O", "R", "w", "0", "K", "G", "g", "o", "A", "A", "A", "A",
      "N", "S", "U", "h", "E", "U", "g", "A", "A", "B", "A", "A", "A", "A", "A",
      "Q", "A">>

JpegBase64 == <<"/", "9", "j", "/", "4", "A", "=", "=">>

\* Parsed response bodies of a resolved invokeModel call.
Responses ==
    <<[images |-> <<PngBase64>>],
      [artifacts |-> <<[base64 |-> JpegBase64, finishReason |-> "SUCCESS"]>>],
      [message |-> "model output blocked"],
      [images |-> <<>>]>>

\* err.message of a rejected invokeModel or listFoundationModels call; the
\* empty message is falsy.
ErrorMessages == {"ThrottlingException", ""}

---------------------------------------------------------------------------
(* The application: state after the page has loaded.                       *)

MaxClicks == 2

MaxProbes == 2

\* String.prototype.trim()
RECURSIVE Trim(_)
Trim(s) ==
    IF Len(s) > 0 /\ s[1] = " " THEN Trim(Tail(s))
    ELSE IF Len(s) > 0 /\ s[Len(s)] = " " THEN Trim(SubSeq(s, 1, Len(s) - 1))
    ELSE s

Digits == <<"0", "1", "2", "3", "4", "5", "6", "7", "8", "9">>

\* parseInt of a text of decimal digits
RECURSIVE ParseInt(_)
ParseInt(s) ==
    IF Len(s) = 0 THEN 0
    ELSE 10 * ParseInt(SubSeq(s, 1, Len(s) - 1))
            + (CHOOSE d \in 0..9 : Digits[d + 1] = s[Len(s)])

Akia == <<"A", "K", "I", "A">>

Asia == <<"A", "S", "I", "A">>

\* What the user has in the region select and the two key inputs when
\* handleConnect runs.
ConnectInputs ==
    {[region |-> "us-east-1", accessKeyId |-> <<"A", "K", "I", "A", "1">>, secretAccessKey |-> <<"s", "1">>],
     [region |-> "eu-west-1", accessKeyId |-> <<" ", "A", "S", "I", "A", "2", " ">>, secretAccessKey |-> <<"s", "2", " ">>],
     [region |-> "us-east-1", accessKeyId |-> <<>>, secretAccessKey |-> <<"s", "1">>],
     [region |-> "us-east-1", accessKeyId |-> <<"A", "K", "I", "A", "1">>, secretAccessKey |-> <<" ">>],
     [region |-> "us-east-1", accessKeyId |-> <<"A", "K", "I", "A", "1">>, secretAccessKey |-> <<>>],
     [region |-> "eu-west-1", accessKeyId |-> <<"A", "K", "I", "D", "1">>, secretAccessKey |-> <<"s", "1">>]}

TitanV1 == <<"a", "m", "a", "z", "o", "n", ".", "t", "i", "t", "a", "n", "-", "i", "m", "a", "g", "e", "-", "g", "e", "n", "e", "r", "a", "t", "o", "r", "-", "v", "1">>

SdxlV1 == <<"s", "t", "a", "b", "i", "l", "i", "t", "y", ".", "s", "t", "a", "b", "l", "e", "-", "d", "i", "f", "f", "u", "s", "i", "o", "n", "-", "x", "l", "-", "v", "1">>

\* What the user has in the generator form, and what Math.random() draws,
\* when handleGenerate runs: a filled-in form, that form with another model,
\* size, frame or draw, and with validated fields left empty.
BaseForm ==
    [worldContext |-> <<"A", "b", ".", " ", "C", "d", ".", " ", "E", "f", ".">>, worldStyle |-> <<"S", "t">>,
     negative |-> <<"x">>, charName |-> <<"N", "a">>, charRole |-> <<"R", "o">>,
     charDesc |-> <<"D", "e">>, model |-> TitanV1, size |-> <<"2", "5", "6">>,
     frame |-> <<"F", "r">>, rnd |-> RandomMin]

GenerateForms ==
    {BaseForm,
     [BaseForm EXCEPT !.frame = <<>>, !.model = SdxlV1, !.size = <<"6", "4">>],
     [BaseForm EXCEPT !.size = <<"2", "0", "4", "8">>, !.rnd = RandomMax],
     [BaseForm EXCEPT !.worldContext = <<>>],
     [BaseForm EXCEPT !.worldStyle = <<>>],
     [BaseForm EXCEPT !.charName = <<>>],
     [BaseForm EXCEPT !.charName = <<>>, !.frame = <<>>, !.size = <<"2", "0", "4", "8">>]}

PageLoaded ==
    [credentialsForm |-> "block", connectedView |-> "none",
     generatorSection |-> "none", resultsSection |-> "none",
     loadingDiv |-> "none", errorDiv |-> "none"]

AppInit ==
    /\ awsCredentials = Null
    /\ awsRegion = Null
    /\ awsConfig = [region |-> Null, credentials |-> Null]
    /\ display = PageLoaded
    /\ generateBtnDisabled = FALSE
    /\ errorText = ""
    /\ credentialsStatus = [text |-> <<>>, type |-> ""]
    /\ connectedRegion = Null
    /\ resultImage = Null
    /\ probes = EmptyBag
    /\ invokes = {}
    /\ clients = 0
    /\ accepted = 0
    /\ calls = EmptyBag

---------------------------------------------------------------------------
(* Connection functions                                                    *)

\* showStatus(message, type)
Status(message, type) == [text |-> message, type |-> type]

\* The two key inputs of each connect form after .value.trim(), tabulated.
TrimmedKeys ==
    [in \in ConnectInputs |->
        [accessKeyId |-> Trim(in.accessKeyId),
         secretAccessKey |-> Trim(in.secretAccessKey)]]

\* The number of BedrockRuntime clients after handleConnect has configured
\* the SDK and constructed its AWS.Bedrock client for the probe: it
\* constructs no BedrockRuntime client.
RuntimeClientsAfterConnectEager(n) == n + 1

RuntimeClientsAfterConnect(n) == n

\* handleConnect, up to the await of listFoundationModels.  The connect
\* button and the key inputs belong to the credentials form.
HandleConnect(in) ==
    /\ display.credentialsForm = "block"
    /\ BagCardinality(probes) < MaxProbes
    /\ LET accessKeyId == TrimmedKeys[in].accessKeyId
           secretAccessKey == TrimmedKeys[in].secretAccessKey
       IN  IF ~Truthy(accessKeyId) \/ ~Truthy(secretAccessKey)
           THEN /\ credentialsStatus' =
                    Status(<<"Please enter both Access Key ID and Secret Access Key">>, "error")
                /\ UNCHANGED <<awsConfig, probes, clients>>
           ELSE IF ~StartsWith(accessKeyId, Akia) /\ ~StartsWith(accessKeyId, Asia)
           THEN /\ credentialsStatus' =
                    Status(<<"Access Key ID should start with AKIA or ASIA">>, "error")
                /\ UNCHANGED <<awsConfig, probes, clients>>
           ELSE /\ credentialsStatus' = Status(<<"Validating credentials...">>, "")
                /\ clients' = RuntimeClientsAfterConnect(clients)
                /\ awsConfig' =
                    [region |-> Some(in.region),
                     credentials |-> Some([accessKeyId |-> accessKeyId,
                                           secretAccessKey |-> secretAccessKey])]
                /\ probes' = probes (+) SetToBag(
                    {[region |-> in.region, accessKeyId |-> accessKeyId,
                      secretAccessKey |-> secretAccessKey]})
    /\ UNCHANGED <<awsCredentials, awsRegion, display, generateBtnDisabled, errorText,
                   connectedRegion, resultImage, invokes, accepted, calls, fnVars>>

\* showConnectedState()
ShowConnectedState(d) ==
    [d EXCEPT !.credentialsForm = "none", !.connectedView = "block",
              !.generatorSection = "block"]

\* showDisconnectedState()
ShowDisconnectedState(d) ==
    [d EXCEPT !.credentialsForm = "block", !.connectedView = "none",
              !.generatorSection = "none", !.resultsSection = "none"]

\* The object stored in awsCredentials after the probe p succeeded: the
\* accessKeyId and secretAccessKey of that activation of handleConnect.
StoredCredentialsFromConfig(p, config) ==
    IF config.credentials = Null
    THEN [accessKeyId |-> p.accessKeyId, secretAccessKey |-> p.secretAccessKey]
    ELSE Val(config.credentials)

StoredCredentials(p, config) ==
    [accessKeyId |-> p.accessKeyId, secretAccessKey |-> p.secretAccessKey]

\* handleConnect after the await: the listFoundationModels call p answered.
ProbeResolved(p) ==
    /\ BagIn(p, probes)
    /\ awsCredentials' = Some(StoredCredentials(p, awsConfig))
    /\ awsRegion' = Some(p.region)
    /\ display' = ShowConnectedState(display)
    /\ connectedRegion' = awsRegion'
    /\ credentialsStatus' = Status(<<"Connected successfully">>, "success")
    /\ probes' = probes (-) SetToBag({p})
    /\ UNCHANGED <<awsConfig, generateBtnDisabled, errorText, resultImage, invokes,
                   clients, accepted, calls, fnVars>>

\* handleConnect after the await: the listFoundationModels call p failed.
ProbeRejected(p, message) ==
    /\ BagIn(p, probes)
    /\ credentialsStatus' =
        Status(<<"Connection failed: ",
                 IF message # "" THEN message ELSE "Invalid credentials">>, "error")
    /\ awsCredentials' = Null
    /\ awsRegion' = Null
    /\ probes' = probes (-) SetToBag({p})
    /\ UNCHANGED <<awsConfig, display, generateBtnDisabled, errorText, connectedRegion,
                   resultImage, invokes, clients, accepted, calls, fnVars>>

\* handleDisconnect; the disconnect button belongs to the connected view.
\* (The key inputs it clears are read again only as inputs of handleConnect.)
HandleDisconnect ==
    /\ display.connectedView = "block"
    /\ awsCredentials' = Null
    /\ awsRegion' = Null
    /\ awsConfig' = [awsConfig EXCEPT !.credentials = Null]
    /\ display' = ShowDisconnectedState(display)
    /\ credentialsStatus' = Status(<<"Disconnected">>, "")
    /\ UNCHANGED <<generateBtnDisabled, errorText, connectedRegion, resultImage, probes,
                   invokes, clients, accepted, calls,
                   fnVars>>

---------------------------------------------------------------------------
(* Generation functions                                                    *)

ValidationMessage == "Please fill in world context, style, and character name"

\* The validation of lines 157-161: TRUE when the form is rejected.
MissingFields(f) ==
    ~Truthy(f.worldContext) \/ ~Truthy(f.worldStyle) \/ ~Truthy(f.charName)

\* The invokeModel call generateImage makes for the form f: the model id
\* and the encoded body (size is passed to generateImage and not used by
\* it).  The form and the parsed size are kept with the call.
InvokeModelCall(f, size) ==
    [form |-> f,
     size |-> size,
     modelId |-> f.model,
     body |-> RequestBody(f.model,
                BuildPrompt(f.worldContext, f.worldStyle, f.charName, f.charRole,
                            f.charDesc, f.frame),
                f.negative, f.rnd)]

\* What generateImage makes of each response body, and the invokeModel call
\* it makes for each form, tabulated.
DecodedResponses == [r \in DOMAIN Responses |-> Decode(Responses[r])]

CallsOfForms == [f \in GenerateForms |-> InvokeModelCall(f, ParseInt(f.size))]

\* generateBtn.disabled as handleGenerate sets it before the call (line 167)
\* and in its finally block (line 177).
ButtonLeftEnabled == FALSE

DisabledWhileLoading == TRUE

ButtonLeftDisabled == TRUE

DisabledAfterSettle == FALSE

\* if (!awsCredentials): the credential check of handleGenerate.
NotConnectedNever(credentials) == FALSE

NotConnected(credentials) == credentials = Null

\* handleGenerate, up to the await of invokeModel.  The generate button
\* belongs to the generator section and takes no click while disabled.
HandleGenerate(f) ==
    /\ display.generatorSection = "block"
    /\ ~generateBtnDisabled
    /\ accepted < MaxClicks
    /\ IF NotConnected(awsCredentials)
       THEN /\ credentialsStatus' =
                Status(<<"Not connected. Please enter your AWS credentials.">>, "error")
            /\ UNCHANGED <<display, generateBtnDisabled, errorText, invokes, clients,
                           accepted, calls>>
       ELSE IF MissingFields(f)
       THEN /\ errorText' = ValidationMessage
            /\ display' = [display EXCEPT !.errorDiv = "block"]
            /\ UNCHANGED <<credentialsStatus, generateBtnDisabled, invokes, clients,
                           accepted, calls>>
       ELSE /\ generateBtnDisabled' = DisabledWhileLoading
            /\ display' = [display EXCEPT !.loadingDiv = "block", !.errorDiv = "none"]
            /\ accepted' = accepted + 1
            /\ clients' = clients + 1
            /\ calls' = calls (+) SetToBag({CallsOfForms[f]})
            /\ invokes' = invokes \cup {[n |-> accepted', form |-> f]}
            /\ UNCHANGED <<credentialsStatus, errorText>>
    /\ UNCHANGED <<awsCredentials, awsRegion, awsConfig, connectedRegion, resultImage,
                   probes, fnVars>>

\* The catch block of handleGenerate for the pending activation p: it
\* makes no further invokeModel call.
CallsAfterFailureRetry(log, p) ==
    log (+) SetToBag({InvokeModelCall(p.form, ParseInt(p.form.size))})

CallsAfterFailure(log, p) == log

\* showError(err.message || 'Generation failed')
ErrorShown(message) == IF message # "" THEN message ELSE "Generation failed"

\* handleGenerate after the await: invokeModel answered the pending
\* activation p with the body Responses[r].
InvokeResolved(p, r) ==
    /\ p \in invokes
    /\ r \in DOMAIN Responses
    /\ invokes' = invokes \ {p}
    /\ LET image == DecodedResponses[r]
       IN  IF image.ok
           THEN \* displayResult(imageBytes), then the finally block
                /\ resultImage' = Some(image.bytes)
                /\ display' = [display EXCEPT !.generatorSection = "none",
                                              !.resultsSection = "block",
                                              !.loadingDiv = "none"]
                /\ UNCHANGED <<errorText, calls>>
           ELSE \* the catch block, then the finally block
                /\ errorText' = ErrorShown(image.message)
                /\ display' = [display EXCEPT !.errorDiv = "block", !.loadingDiv = "none"]
                /\ calls' = CallsAfterFailure(calls, p)
                /\ UNCHANGED resultImage
    /\ generateBtnDisabled' = DisabledAfterSettle
    /\ UNCHANGED <<awsCredentials, awsRegion, awsConfig, credentialsStatus,
                   connectedRegion, probes, clients, accepted, fnVars>>

\* handleGenerate after the await: invokeModel failed for the pending
\* activation p.
InvokeRejected(p, message) ==
    /\ p \in invokes
    /\ invokes' = invokes \ {p}
    /\ errorText' = ErrorShown(message)
    /\ display' = [display EXCEPT !.errorDiv = "block", !.loadingDiv = "none"]
    /\ calls' = CallsAfterFailure(calls, p)
    /\ generateBtnDisabled' = DisabledAfterSettle
    /\ UNCHANGED <<awsCredentials, awsRegion, awsConfig, credentialsStatus,
                   connectedRegion, resultImage, probes, clients, accepted, fnVars>>

\* The click handler of regenerateBtn, a button of the results section.
RegenerateClick ==
    /\ display.resultsSection = "block"
    /\ display' = [display EXCEPT !.resultsSection = "none", !.generatorSection = "block"]
    /\ UNCHANGED <<awsCredentials, awsRegion, awsConfig, generateBtnDisabled, errorText,
                   credentialsStatus, connectedRegion, resultImage, probes, invokes,
                   clients, accepted, calls, fnVars>>

---------------------------------------------------------------------------
(* The application                                                         *)

Init == AppInit /\ input = Null /\ output = Null

Connect == \E in \in ConnectInputs : HandleConnect(in)

ProbeResolve == \E p \in BagToSet(probes) : ProbeResolved(p)

ProbeReject == \E p \in BagToSet(probes), m \in ErrorMessages : ProbeRejected(p, m)

Disconnect == HandleDisconnect

Generate == \E f \in GenerateForms : HandleGenerate(f)

InvokeResolve == \E p \in invokes, r \in DOMAIN Responses : InvokeResolved(p, r)

InvokeReject == \E p \in invokes, m \in ErrorMessages : InvokeRejected(p, m)

Regenerate == RegenerateClick

Next ==
    \/ Connect
    \/ ProbeResolve
    \/ ProbeReject
    \/ Disconnect
    \/ Generate
    \/ InvokeResolve
    \/ InvokeReject
    \/ Regenerate

Spec == Init /\ [][Next]_vars

---------------------------------------------------------------------------
(* buildPrompt and the request encoding of generateImage, applied to       *)
(* inputs drawn from PromptInputs and EncodeInputs.                        *)

InitPrompt == AppInit /\ input \in {Some(i) : i \in PromptInputs} /\ output = Null

ApplyBuildPrompt ==
    /\ input # Null
    /\ output = Null
    /\ Val(input).fn = "buildPrompt"
    /\ output' = Some(BuildPrompt(Val(input).context, Val(input).style, Val(input).name,
                                  Val(input).role, Val(input).description,
                                  Val(input).frame))
    /\ UNCHANGED <<appVars, input>>

NextPrompt == ApplyBuildPrompt

SpecPrompt == InitPrompt /\ [][NextPrompt]_vars

InitEncode == AppInit /\ input \in {Some(i) : i \in EncodeInputs} /\ output = Null

ApplyEncode ==
    /\ input # Null
    /\ output = Null
    /\ Val(input).fn = "generateImage"
    /\ output' = Some(RequestBody(Val(input).modelId, Val(input).prompt,
                                  Val(input).negative, Val(input).rnd))
    /\ UNCHANGED <<appVars, input>>

NextEncode == ApplyEncode

SpecEncode == InitEncode /\ [][NextEncode]_vars

---------------------------------------------------------------------------
(* Properties of the request encoding (SpecEncode).                        *)

\* The shape of an encoded body, read off its fields.
IsTitanShape(b) == {"taskType", "textToImageParams", "imageGenerationConfig"} \subseteq DOMAIN b

IsSd3Shape(b) == {"prompt", "mode", "aspect_ratio", "output_format"} \subseteq DOMAIN b

IsSdxlShape(b) == {"text_prompts", "cfg_scale", "steps"} \subseteq DOMAIN b

\* m begins with the characters of prefix, position by position.
BeginsWith(m, prefix) == Len(m) >= Len(prefix) /\ \A i \in 1..Len(prefix) : m[i] = prefix[i]

\* The positive prompt text carried by an encoded body.
PayloadText(b) ==
    IF IsTitanShape(b) THEN b.textToImageParams.text
    ELSE IF IsSd3Shape(b) THEN b.prompt
    ELSE b.text_prompts[1].text

\* C1: the request encoding is chosen by model-identifier prefix: an
\* identifier beginning "amazon.titan" gets the Titan shape, otherwise one
\* beginning "stability.sd3" gets the SD3.5 shape, and every other identifier
\* gets the SDXL shape.
C1_EncodingByPrefix ==
    output # Null =>
        LET m == Val(input).modelId
            b == Val(output)
            titan == BeginsWith(m, TitanPrefix)
            sd3 == ~titan /\ BeginsWith(m, Sd3Prefix)
        IN  /\ IsTitanShape(b) <=> titan
            /\ IsSd3Shape(b) <=> sd3
            /\ IsSdxlShape(b) <=> (~titan /\ ~sd3)

\* An identifier one character short of "amazon.titan" has been encoded in
\* the SDXL shape.
C1_Witness ==
    /\ output # Null
    /\ Len(Val(input).modelId) = 11
    /\ BeginsWith(TitanPrefix, Val(input).modelId)
    /\ IsSdxlShape(Val(output))

\* C5: the prompt sent is the original cut to at most 512 characters for
\* Titan, 10,000 for SD3.5 and 2,000 for SDXL; a prompt within the limit is
\* sent unchanged.
C5_PromptTruncation ==
    output # Null =>
        LET p == Val(input).prompt
            b == Val(output)
            t == PayloadText(b)
            limit == IF IsTitanShape(b) THEN 512 ELSE IF IsSd3Shape(b) THEN 10000 ELSE 2000
        IN  /\ Len(t) = (IF Len(p) <= limit THEN Len(p) ELSE limit)
            /\ \A i \in 1..Len(t) : t[i] = p[i]
            /\ Len(p) <= limit => t = p

\* A 2,001-character prompt has been cut to 2,000 characters for SDXL.
C5_Witness ==
    /\ output # Null
    /\ IsSdxlShape(Val(output))
    /\ Len(Val(input).prompt) = 2001
    /\ Len(PayloadText(Val(output))) = 2000

\* C6: a non-empty negative prompt is sent as negativeText cut to 512
\* characters (Titan), as negative_prompt in full (SD3.5), or as a second
\* text prompt of weight -1 beside the positive prompt of weight 1 (SDXL);
\* an empty one adds no field and no second prompt.
C6_NegativePrompt ==
    output # Null =>
        LET n == Val(input).negative
            b == Val(output)
        IN  /\ IsTitanShape(b) =>
                IF n = <<>> THEN "negativeText" \notin DOMAIN b.textToImageParams
                ELSE /\ "negativeText" \in DOMAIN b.textToImageParams
                     /\ LET t == b.textToImageParams.negativeText
                        IN  /\ Len(t) = (IF Len(n) <= 512 THEN Len(n) ELSE 512)
                            /\ \A i \in 1..Len(t) : t[i] = n[i]
            /\ IsSd3Shape(b) =>
                IF n = <<>> THEN "negative_prompt" \notin DOMAIN b
                ELSE "negative_prompt" \in DOMAIN b /\ b.negative_prompt = n
            /\ IsSdxlShape(b) =>
                /\ b.text_prompts[1].weight = 1
                /\ IF n = <<>> THEN Len(b.text_prompts) = 1
                   ELSE /\ Len(b.text_prompts) = 2
                        /\ b.text_prompts[2] = [text |-> n, weight |-> -1]

\* A 513-character negative prompt has been sent whole to SD3.5.
C6_Witness ==
    /\ output # Null
    /\ IsSd3Shape(Val(output))
    /\ Len(Val(input).negative) = 513
    /\ "negative_prompt" \in DOMAIN Val(output)
    /\ Len(Val(output).negative_prompt) = 513

\* The seed of an encoded body.
PayloadSeed(b) == IF IsTitanShape(b) THEN b.imageGenerationConfig.seed ELSE b.seed

\* C7: the seed drawn when none is supplied lies in 0..2^31-2 for Titan and
\* 0..2^32-2 for SD3.5 and SDXL, both ends included: the smallest draw gives
\* 0 and the largest draw gives the upper end.
C7_SeedRange ==
    output # Null =>
        LET b == Val(output)
            top == IF IsTitanShape(b) THEN Dec(<<2, 1, 4, 7, 4, 8, 3, 6, 4, 6>>)
                   ELSE Dec(<<4, 2, 9, 4, 9, 6, 7, 2, 9, 4>>)
        IN  /\ BigLeq(PayloadSeed(b), top)
            /\ Val(input).rnd = RandomMin => PayloadSeed(b) = BigZero
            /\ Val(input).rnd = RandomMax => PayloadSeed(b) = top

---------------------------------------------------------------------------
(* Properties of the composed prompt (SpecPrompt).                         *)

\* The k-th newline-delimited line of a text.
RECURSIVE LineOf(_, _)
LineOf(t, k) ==
    LET breaks == {i \in 1..Len(t) : t[i] = "\n"}
        first == IF breaks = {} THEN Len(t) + 1
                 ELSE CHOOSE i \in breaks : \A j \in breaks : i <= j
    IN  IF k = 1 \/ breaks = {} THEN SubSeq(t, 1, first - 1)
        ELSE LineOf(SubSeq(t, first + 1, Len(t)), k - 1)

\* The context up to its second period: its first two period-delimited
\* segments with the period between them, or all of it when it holds fewer
\* than two periods.
FirstTwoSegments(c) ==
    LET dots == {i \in 1..Len(c) : c[i] = "."}
        second == {i \in dots : Cardinality({j \in dots : j < i}) = 1}
    IN  IF second = {} THEN c ELSE SubSeq(c, 1, (CHOOSE i \in second : TRUE) - 1)

\* C10: the setting line is "Setting: " followed by at most the first two
\* period-delimited segments of the context and ended by a single trailing
\* period, with nothing of a later segment, for every context.
C10_SettingLine ==
    output # Null =>
        LET c == Val(input).context
            line == LineOf(Val(output), 6)
            body == SubSeq(line, 10, Len(line))
            kept == FirstTwoSegments(c)
        IN  /\ SubSeq(line, 1, 9) = <<"S", "e", "t", "t", "i", "n", "g", ":", " ">>
            /\ SubSeq(body, 1, Len(kept)) = kept
            /\ Len(body) <= Len(kept) + 1
            /\ Len(body) >= 1 /\ body[Len(body)] = "."
            /\ Len(body) >= 2 => body[Len(body) - 1] # "."

---------------------------------------------------------------------------
(* Properties of the application (Spec).                                   *)

\* C2: every accepted Generate click makes exactly one invokeModel call,
\* whether the call succeeds or fails: the backend has received as many
\* calls as there were accepted clicks, also after failures.
C2_OneCallPerAcceptedRequest ==
    /\ BagCardinality(calls) = accepted
    /\ Cardinality(invokes) <= 1

\* An accepted request has failed at the backend and is settled.
C2_Witness ==
    /\ accepted >= 1
    /\ invokes = {}
    /\ errorText = "ThrottlingException"
    /\ display.errorDiv = "block"
    /\ BagCardinality(calls) = accepted

\* C3: a request whose prompt frame or character name is empty makes no
\* invokeModel call.
C3_EmptyFrameOrNameNotSent ==
    \A c \in BagToSet(calls) : c.form.frame # <<>> /\ c.form.charName # <<>>

\* C4: requests with identical world, character, frame, model and seed make
\* one invokeModel call in total.
C4_IdenticalRequestsOneCall ==
    \A c \in BagToSet(calls) : CopiesIn(c, calls) = 1

\* A parsed response body holding neither images nor artifacts.
LacksImageFields(body) == "images" \notin DOMAIN body /\ "artifacts" \notin DOMAIN body

\* C8 (as the code words it): when the call of the pending request p is
\* answered by a response with neither an images nor an artifacts field, the
\* request fails with the message "No image in response", shown in the error
\* area; the image shown and the visibility of the results section are left
\* as they were.
C8_NoImageInResponse ==
    [][\A p \in invokes \ invokes' : \A r \in DOMAIN Responses :
          (LacksImageFields(Responses[r]) /\ InvokeResolved(p, r)) =>
              /\ errorText' = "No image in response"
              /\ display'.errorDiv = "block"
              /\ resultImage' = resultImage
              /\ display'.resultsSection = display.resultsSection]_vars

\* A response without image fields has been reported.
C8_Witness ==
    /\ errorText = "No image in response"
    /\ display.errorDiv = "block"
    /\ display.loadingDiv = "none"
    /\ invokes = {}
    /\ accepted >= 1

\* C8 as stated: the message is "no image in response".
C8_LowerCaseMessage ==
    [][\A p \in invokes \ invokes' : \A r \in DOMAIN Responses :
          (LacksImageFields(Responses[r]) /\ InvokeResolved(p, r)) =>
              /\ errorText' = "no image in response"
              /\ display'.errorDiv = "block"
              /\ resultImage' = resultImage
              /\ display'.resultsSection = display.resultsSection]_vars

\* C9: a request whose size is greater than 1024 makes no invokeModel call.
C9_OversizeNotSent ==
    \A c \in BagToSet(calls) : c.size <= 1024

---------------------------------------------------------------------------
(* Composition of the prompt (SpecPrompt).                                 *)

\* A blank line between two parts: the line break ending the first part and
\* an empty line.
BlankLine == <<"\n", "\n">>

\* C11: the composed prompt is frame, identity line "Character: name,
\* role.", description, setting line and style line in this order, every two
\* consecutive parts separated by a blank line.
C11_PartsSeparatedByBlankLines ==
    output # Null =>
        LET i == Val(input)
            identity == <<"C", "h", "a", "r", "a", "c", "t", "e", "r", ":", " ">>
                            \o i.name \o <<",", " ">> \o i.role \o <<".">>
            style == <<"S", "t", "y", "l", "e", ":", " ">> \o i.style
        IN  Val(output) = i.frame \o BlankLine \o identity \o BlankLine
                            \o i.description \o BlankLine
                            \o SettingLine(i.context) \o BlankLine \o style

---------------------------------------------------------------------------
(* The image produced by a generation (Spec).                              *)

\* The bytes begin with the PNG signature and an IHDR chunk.
IsPng(bytes) ==
    /\ Len(bytes) >= 24
    /\ SubSeq(bytes, 1, 8) = <<137, 80, 78, 71, 13, 10, 26, 10>>
    /\ SubSeq(bytes, 13, 16) = <<73, 72, 68, 82>>

\* The big-endian number in the four bytes from position k.
BigEndian(bytes, k) ==
    ((bytes[k] * 256 + bytes[k + 1]) * 256 + bytes[k + 2]) * 256 + bytes[k + 3]

PngWidth(bytes) == BigEndian(bytes, 17)

PngHeight(bytes) == BigEndian(bytes, 21)

\* C12: when the call of a request of size s below 1024 is answered with a
\* 1024 by 1024 image, the image produced has width s and height s.
C12_ImageHasRequestedSize ==
    [][\A p \in invokes \ invokes' : \A r \in DOMAIN Responses :
          (/\ InvokeResolved(p, r)
           /\ Decode(Responses[r]).ok
           /\ IsPng(Decode(Responses[r]).bytes)
           /\ PngWidth(Decode(Responses[r]).bytes) = 1024
           /\ PngHeight(Decode(Responses[r]).bytes) = 1024
           /\ ParseInt(p.form.size) < 1024) =>
              /\ resultImage' # Null
              /\ IsPng(Val(resultImage'))
              /\ PngWidth(Val(resultImage')) = ParseInt(p.form.size)
              /\ PngHeight(Val(resultImage')) = ParseInt(p.form.size)]_vars

---------------------------------------------------------------------------
(* The BedrockRuntime client (Spec).                                       *)

\* C13: no BedrockRuntime client is constructed before the first generation
\* request that passed the credential check and the field validation:
\* loading the page, connecting and disconnecting construct none.
C13_RuntimeClientIsLazy == accepted = 0 => clients = 0

\* The user has connected and disconnected, and a listFoundationModels probe
\* has been made, without any accepted generation request.
C13_Witness ==
    /\ credentialsStatus = [text |-> <<"Disconnected">>, type |-> ""]
    /\ awsConfig.region # Null
    /\ accepted = 0
    /\ clients = 0

---------------------------------------------------------------------------
(* Decoding by adapter (Spec).                                             *)

\* The base64 text in the response field of the adapter selected by the
\* model id (images[0] for Titan and SD3.5, artifacts[0].base64 for SDXL), or
\* Null when the response lacks it.
AdapterField(modelId, body) ==
    IF BeginsWith(modelId, TitanPrefix) \/ BeginsWith(modelId, Sd3Prefix)
    THEN IF "images" \in DOMAIN body /\ Len(body.images) >= 1
         THEN Some(body.images[1]) ELSE Null
    ELSE IF "artifacts" \in DOMAIN body /\ Len(body.artifacts) >= 1
                /\ "base64" \in DOMAIN body.artifacts[1]
         THEN Some(body.artifacts[1].base64) ELSE Null

\* C14: the image is decoded from the response field of the selected adapter;
\* a response lacking that field fails with an error and yields no image.
C14_DecodedFromAdapterField ==
    [][\A p \in invokes \ invokes' : \A r \in DOMAIN Responses :
          InvokeResolved(p, r) =>
              LET field == AdapterField(p.form.model, Responses[r])
              IN  IF field = Null
                  THEN /\ resultImage' = resultImage
                       /\ display'.resultsSection = display.resultsSection
                       /\ display'.errorDiv = "block"
                  ELSE /\ Atob(Val(field)).ok
                       /\ resultImage' = Some(Atob(Val(field)).bytes)]_vars

---------------------------------------------------------------------------
(* Invocations in flight (Spec).                                           *)

\* C15: at most one invokeModel call is in flight at any time: while one is
\* pending the generate button is disabled, and no Generate click, disconnect
\* and reconnect, or Regenerate click starts a second one.
C15_SingleFlight ==
    /\ \A p \in invokes : \A q \in invokes : p = q
    /\ invokes # {} => generateBtnDisabled

\* A call is pending while the user, having disconnected, is connecting
\* again (the connect form is reachable again only through a disconnect).
C15_Witness ==
    /\ Cardinality(invokes) = 1
    /\ generateBtnDisabled
    /\ awsCredentials = Null
    /\ credentialsStatus = [text |-> <<"Validating credentials...">>, type |-> ""]

\* C20: the generate button is disabled and the loading indicator visible
\* exactly while an invokeModel call is pending; after the call settles, by
\* success, backend failure or decode failure, the button is enabled and the
\* indicator hidden.
C20_LoadingExactlyWhilePending ==
    /\ generateBtnDisabled <=> invokes # {}
    /\ display.loadingDiv = "block" <=> invokes # {}

\* A generation has failed at the backend, and the button is enabled and the
\* loading indicator hidden again.
C20_Witness ==
    /\ accepted >= 1
    /\ invokes = {}
    /\ errorText = "Generation failed"
    /\ display.errorDiv = "block"
    /\ ~generateBtnDisabled
    /\ display.loadingDiv = "none"

---------------------------------------------------------------------------
(* Stored credentials (Spec).                                              *)

\* C16: awsCredentials and awsRegion become non-null only in the step in
\* which a listFoundationModels probe succeeds, and then hold exactly the
\* keys and the region of that probe; a probe that fails leaves both null
\* and changes nothing of what is shown besides the status.
C16_CredentialsFromSucceededProbe ==
    [][/\ (awsCredentials' = Null) <=> (awsRegion' = Null)
       /\ (awsCredentials' # Null /\ <<awsCredentials', awsRegion'>> # <<awsCredentials, awsRegion>>) =>
            \E p \in BagToSet(probes) :
                /\ probes' = probes (-) SetToBag({p})
                /\ awsCredentials' = Some([accessKeyId |-> p.accessKeyId,
                                           secretAccessKey |-> p.secretAccessKey])
                /\ awsRegion' = Some(p.region)
                /\ credentialsStatus'.type = "success"
       /\ \A p \in BagToSet(probes (-) probes') : \A m \in ErrorMessages :
            ProbeRejected(p, m) =>
                /\ awsCredentials' = Null
                /\ awsRegion' = Null
                /\ display' = display]_vars

\* The probe of the first of two overlapping connect attempts has succeeded:
\* the stored keys and region are its own, not those the SDK was configured
\* with last.
C16_Witness ==
    /\ awsCredentials = Some([accessKeyId |-> <<"A", "S", "I", "A", "2">>,
                              secretAccessKey |-> <<"s", "2">>])
    /\ awsRegion = Some("eu-west-1")
    /\ awsConfig.region = Some("us-east-1")
    /\ BagCardinality(probes) = 1

---------------------------------------------------------------------------
(* Disconnecting (Spec).                                                   *)

\* The last thing written to the status line is handleDisconnect's message:
\* the user has disconnected and has started no connect since (every
\* handleConnect writes the status line).
DisconnectedSince == credentialsStatus = [text |-> <<"Disconnected">>, type |-> ""]

\* C17: after a disconnect the stored credentials stay null and the
\* connected view hidden until the user starts a new connect; a probe
\* started before the disconnect that completes after it changes neither.
C17_DisconnectIsFinal ==
    [][DisconnectedSince =>
          /\ awsCredentials' = Null
          /\ awsRegion' = Null
          /\ display'.connectedView = "none"]_vars

\* C18: whenever the generator section or the connected view is visible,
\* awsCredentials and awsRegion are non-null.
C18_VisibleOnlyWhenConnected ==
    (display.generatorSection = "block" \/ display.connectedView = "block") =>
        (awsCredentials # Null /\ awsRegion # Null)

\* C19: after a disconnect the results section stays hidden until a
\* generation started after a later successful connect completes; a
\* generation in flight at the disconnect does not show its result.
C19_NoResultAfterDisconnect ==
    [][DisconnectedSince => display'.resultsSection = "none"]_vars

---------------------------------------------------------------------------
(* Requests rejected locally (Spec).                                       *)

\* C21: a Generate click made while awsCredentials is null makes no backend
\* call and changes nothing but the status message: the button, the loading
\* indicator, the error area and the visible sections stay as they were.
C21_GenerateWithoutCredentials ==
    [][awsCredentials = Null =>
          \A f \in GenerateForms :
              HandleGenerate(f) =>
                  /\ calls' = calls
                  /\ invokes' = invokes
                  /\ clients' = clients
                  /\ generateBtnDisabled' = generateBtnDisabled
                  /\ display' = display
                  /\ errorText' = errorText
                  /\ resultImage' = resultImage
                  /\ credentialsStatus'.type = "error"]_vars

\* Generate has been clicked without stored credentials (the generator
\* section was left visible by a connect attempt that failed after another
\* one had succeeded), and only the status line has changed.
C21_Witness ==
    /\ awsCredentials = Null
    /\ display.generatorSection = "block"
    /\ credentialsStatus =
        [text |-> <<"Not connected. Please enter your AWS credentials.">>, type |-> "error"]
    /\ calls = EmptyBag
    /\ ~generateBtnDisabled
    /\ display.loadingDiv = "none"
    /\ display.errorDiv = "none"

\* The connect form holds an empty access key id, an empty secret key, or
\* an access key id (without surrounding blanks) that begins with neither
\* "AKIA" nor "ASIA".
RejectedLocally(in) ==
    \/ in.accessKeyId = <<>>
    \/ in.secretAccessKey = <<>>
    \/ /\ in.accessKeyId[1] # " "
       /\ in.accessKeyId[Len(in.accessKeyId)] # " "
       /\ ~BeginsWith(in.accessKeyId, <<"A", "K", "I", "A">>)
       /\ ~BeginsWith(in.accessKeyId, <<"A", "S", "I", "A">>)

RejectedInputs == {in \in ConnectInputs : RejectedLocally(in)}

\* C22: a connect attempt with an empty access key id, an empty secret key
\* or an access key id beginning with neither "AKIA" nor "ASIA" makes no AWS
\* call and leaves the SDK configuration, awsCredentials, awsRegion and the
\* visible sections unchanged; only the status message changes.
C22_ConnectRejectedLocally ==
    [][\A in \in RejectedInputs :
          HandleConnect(in) =>
              /\ probes' = probes
              /\ awsConfig' = awsConfig
              /\ awsCredentials' = awsCredentials
              /\ awsRegion' = awsRegion
              /\ display' = display
              /\ clients' = clients
              /\ credentialsStatus'.type = "error"]_vars

\* A connect attempt with a badly prefixed access key id has been rejected
\* before the SDK was ever configured.
C22_Witness ==
    /\ credentialsStatus =
        [text |-> <<"Access Key ID should start with AKIA or ASIA">>, type |-> "error"]
    /\ awsConfig = [region |-> Null, credentials |-> Null]
    /\ probes = EmptyBag
    /\ display = PageLoaded

---------------------------------------------------------------------------
(* The Cognito-based application (docs/app.js with docs/aws-config.js).    *)
(*                                                                         *)
(* input holds AWS_CONFIG, output the state of the page: the two state     *)
(* variables (as "is non-null"), the display styles, the status text, the  *)
(* calls awaiting their callback, and counts of the calls made.            *)

MaxAuthCalls == 2

MaxInvocations == 1

UserPoolIdPlaceholder == "YOUR_USER_POOL_ID"

AppClientIdPlaceholder == "YOUR_APP_CLIENT_ID"

IdentityPoolIdPlaceholder == "YOUR_IDENTITY_POOL_ID"

\* Values of AWS_CONFIG: each identifier left at its placeholder or edited
\* (to an identifier, to another field's placeholder, to the empty string).
CognitoConfigs ==
    [region : {"us-east-1"},
     userPoolId : {UserPoolIdPlaceholder, "us-east-1_Ab12Cd34E", AppClientIdPlaceholder},
     userPoolClientId : {AppClientIdPlaceholder, "1example23456789"},
     identityPoolId : {IdentityPoolIdPlaceholder, "us-east-1:1a2b3c4d", ""}]

\* isConfigured()
IsConfiguredAny(config) ==
    \/ config.userPoolId # UserPoolIdPlaceholder
    \/ config.userPoolClientId # AppClientIdPlaceholder
    \/ config.identityPoolId # IdentityPoolIdPlaceholder

IsConfigured(config) ==
    /\ config.userPoolId # UserPoolIdPlaceholder
    /\ config.userPoolClientId # AppClientIdPlaceholder
    /\ config.identityPoolId # IdentityPoolIdPlaceholder

\* The page before DOMContentLoaded.
CognitoPageOpened ==
    [loaded |-> FALSE, cognitoInitialised |-> FALSE, listenersAttached |-> FALSE,
     cognitoUser |-> FALSE, awsCredentials |-> FALSE,
     setupSection |-> "none", signInForm |-> "none", signedInView |-> "none",
     generatorSection |-> "none", resultsSection |-> "none", errorDiv |-> "none",
     authStatus |-> "", generateBtnDisabled |-> FALSE,
     signIns |-> 0, signUps |-> 0, refreshes |-> 0, invokes |-> 0,
     authCalls |-> 0, fetches |-> 0, invocations |-> 0]

\* What userPool.getCurrentUser() and getSession find in the browser's
\* storage when the page loads.
StoredSessions == {"none", "expired", "valid"}

\* showStatus(message, type)
ShowStatus(a, message) == [a EXCEPT !.authStatus = message]

\* showSignInForm()
ShowSignInForm(a) ==
    [a EXCEPT !.signInForm = "block", !.signedInView = "none",
              !.generatorSection = "none"]

\* getAWSCredentials(session): starts AWS.config.credentials.refresh.
GetAWSCredentials(a) ==
    [a EXCEPT !.refreshes = @ + 1, !.fetches = @ + 1]

\* handleSignedIn(user, session)
HandleSignedIn(a) ==
    GetAWSCredentials(
        ShowStatus([a EXCEPT !.signInForm = "none", !.signedInView = "block",
                             !.generatorSection = "block"],
                   "Signed in successfully"))

\* initCognito(); the getSession callback of a stored user runs with it.
InitCognito(a, stored) ==
    LET b == [a EXCEPT !.cognitoInitialised = TRUE, !.cognitoUser = (stored # "none")]
    IN  IF stored = "valid" THEN HandleSignedIn(b) ELSE ShowSignInForm(b)

\* attachEventListeners()
AttachEventListeners(a) == [a EXCEPT !.listenersAttached = TRUE]

\* The DOMContentLoaded handler.
DomContentLoaded(stored) ==
    /\ input # Null
    /\ output # Null
    /\ ~Val(output).loaded
    /\ LET a == [Val(output) EXCEPT !.loaded = TRUE]
       IN  output' =
             IF ~IsConfigured(Val(input))
             THEN Some([ShowStatus(a, "Please configure AWS Cognito in aws-config.js")
                            EXCEPT !.setupSection = "block"])
             ELSE Some(AttachEventListeners(
                          InitCognito([a EXCEPT !.setupSection = "none"], stored)))
    /\ UNCHANGED <<appVars, input>>


\* A step of the loaded page from the state a to the state b.
CognitoStep(b) == output' = Some(b) /\ UNCHANGED <<appVars, input>>

\* handleSignIn, run by the click and keypress listeners of the sign-in
\* form; filled: both email and password are non-empty.
HandleSignIn(filled) ==
    /\ output # Null
    /\ LET a == Val(output)
       IN  /\ a.listenersAttached
           /\ a.signInForm = "block"
           /\ a.authCalls < MaxAuthCalls
           /\ CognitoStep(
                IF ~filled THEN ShowStatus(a, "Please enter email and password")
                ELSE ShowStatus([a EXCEPT !.cognitoUser = TRUE, !.signIns = @ + 1,
                                          !.authCalls = @ + 1],
                                "Signing in..."))

\* The callbacks of cognitoUser.authenticateUser.
AuthenticateCallbacks == {"onSuccess", "onFailure", "newPasswordRequired"}

AuthenticateUserSettled(callback) ==
    /\ output # Null
    /\ LET a == Val(output)
           b == [a EXCEPT !.signIns = @ - 1]
       IN  /\ a.signIns > 0
           /\ CognitoStep(
                CASE callback = "onSuccess" -> HandleSignedIn(b)
                  [] callback = "onFailure" -> ShowStatus(b, "Sign in failed")
                  [] callback = "newPasswordRequired" ->
                        ShowStatus(b, "New password required. Please use AWS Console to set password."))

\* handleSignUp
HandleSignUp(filled) ==
    /\ output # Null
    /\ LET a == Val(output)
       IN  /\ a.listenersAttached
           /\ a.signInForm = "block"
           /\ a.authCalls < MaxAuthCalls
           /\ CognitoStep(
                IF ~filled THEN ShowStatus(a, "Please enter email and password")
                ELSE ShowStatus([a EXCEPT !.signUps = @ + 1, !.authCalls = @ + 1],
                                "Creating account..."))

\* The callback of userPool.signUp.
SignUpSettled(err) ==
    /\ output # Null
    /\ LET a == Val(output)
           b == [a EXCEPT !.signUps = @ - 1]
       IN  /\ a.signUps > 0
           /\ CognitoStep(
                IF err THEN ShowStatus(b, "Sign up failed")
                ELSE ShowStatus(b, "Account created! Check your email for verification code."))

\* The callback of AWS.config.credentials.refresh.
RefreshSettled(err) ==
    /\ output # Null
    /\ LET a == Val(output)
           b == [a EXCEPT !.refreshes = @ - 1]
       IN  /\ a.refreshes > 0
           /\ CognitoStep(
                IF err THEN ShowStatus(b, "Failed to get AWS credentials: ")
                ELSE [b EXCEPT !.awsCredentials = TRUE])

\* handleSignOut; the sign-out button belongs to the signed-in view.
HandleSignOut ==
    /\ output # Null
    /\ LET a == Val(output)
       IN  /\ a.listenersAttached
           /\ a.signedInView = "block"
           /\ CognitoStep(
                ShowStatus(ShowSignInForm([a EXCEPT !.cognitoUser = FALSE,
                                                    !.awsCredentials = FALSE]),
                           "Signed out"))

\* handleGenerate of docs/app.js up to the await of invokeModel; valid: world
\* context, style and character name are non-empty.
CognitoHandleGenerate(valid) ==
    /\ output # Null
    /\ LET a == Val(output)
       IN  /\ a.listenersAttached
           /\ a.generatorSection = "block"
           /\ ~a.generateBtnDisabled
           /\ a.invocations < MaxInvocations
           /\ CognitoStep(
                IF ~a.awsCredentials
                THEN ShowStatus(a, "Not authenticated. Please sign in.")
                ELSE IF ~valid THEN [a EXCEPT !.errorDiv = "block"]
                ELSE [a EXCEPT !.generateBtnDisabled = TRUE, !.errorDiv = "none",
                               !.invokes = @ + 1, !.invocations = @ + 1])

\* handleGenerate of docs/app.js after the await.
CognitoInvokeSettled(ok) ==
    /\ output # Null
    /\ LET a == Val(output)
           b == [a EXCEPT !.invokes = @ - 1, !.generateBtnDisabled = FALSE]
       IN  /\ a.invokes > 0
           /\ CognitoStep(
                IF ok THEN [b EXCEPT !.generatorSection = "none", !.resultsSection = "block"]
                ELSE [b EXCEPT !.errorDiv = "block"])

\* The click listener of regenerateBtn in docs/app.js.
CognitoRegenerateClick ==
    /\ output # Null
    /\ LET a == Val(output)
       IN  /\ a.listenersAttached
           /\ a.resultsSection = "block"
           /\ CognitoStep([a EXCEPT !.resultsSection = "none",
                                    !.generatorSection = "block"])

InitCognitoApp ==
    /\ AppInit
    /\ input \in {Some(c) : c \in CognitoConfigs}
    /\ output = Some(CognitoPageOpened)

PageLoad == \E stored \in StoredSessions : DomContentLoaded(stored)

SignIn == \E filled \in BOOLEAN : HandleSignIn(filled)

SignInSettle == \E callback \in AuthenticateCallbacks : AuthenticateUserSettled(callback)

SignUp == \E filled \in BOOLEAN : HandleSignUp(filled)

SignUpSettle == \E err \in BOOLEAN : SignUpSettled(err)

RefreshSettle == \E err \in BOOLEAN : RefreshSettled(err)

SignOut == HandleSignOut

CognitoGenerate == \E valid \in BOOLEAN : CognitoHandleGenerate(valid)

CognitoInvokeSettle == \E ok \in BOOLEAN : CognitoInvokeSettled(ok)

CognitoRegenerate == CognitoRegenerateClick

NextCognito ==
    \/ PageLoad
    \/ SignIn
    \/ SignInSettle
    \/ SignUp
    \/ SignUpSettle
    \/ RefreshSettle
    \/ SignOut
    \/ CognitoGenerate
    \/ CognitoInvokeSettle
    \/ CognitoRegenerate

SpecCognito == InitCognitoApp /\ [][NextCognito]_vars

\* C23: isConfigured is true exactly when all three identifiers differ from
\* their placeholders, and while any of them holds its placeholder the
\* loaded page has not initialised Cognito, has attached no event handler,
\* and has made no sign-in, sign-up, credential fetch or backend invocation.
C23_UnconfiguredAppIsInert ==
    LET c == Val(input)
        a == Val(output)
        placeholder ==
            \/ c.userPoolId = "YOUR_USER_POOL_ID"
            \/ c.userPoolClientId = "YOUR_APP_CLIENT_ID"
            \/ c.identityPoolId = "YOUR_IDENTITY_POOL_ID"
    IN  /\ IsConfigured(c) <=> ~placeholder
        /\ placeholder =>
            /\ ~a.cognitoInitialised
            /\ ~a.listenersAttached
            /\ ~a.cognitoUser
            /\ ~a.awsCredentials
            /\ a.authCalls = 0
            /\ a.fetches = 0
            /\ a.invocations = 0
            /\ a.signIns = 0 /\ a.signUps = 0 /\ a.refreshes = 0 /\ a.invokes = 0
        /\ (a.loaded /\ ~placeholder) => (a.cognitoInitialised /\ a.listenersAttached)

\* The page has loaded with only the identity pool id left at its
\* placeholder: the setup section is shown and nothing is initialised.
C23_Witness ==
    /\ Val(output).loaded
    /\ Val(input).userPoolId = "us-east-1_Ab12Cd34E"
    /\ Val(input).userPoolClientId = "1example23456789"
    /\ Val(input).identityPoolId = "YOUR_IDENTITY_POOL_ID"
    /\ Val(output).setupSection = "block"
    /\ Val(output).authStatus = "Please configure AWS Cognito in aws-config.js"
    /\ ~Val(output).listenersAttached

===========================================================================
